---- MODULE Spec2Model ----
(***************************************************************************)
(* Model of server.js: the coordinate parser (parseCoord), the header      *)
(* resolver (findKey), the row normalizer (normalizeRows) and the          *)
(* modification-time cache (loadCsvCached).                                *)
(*                                                                         *)
(* A JavaScript string is a sequence of one-character strings.  Two        *)
(* characters are written by their code points: "U+00B0" is the degree     *)
(* sign and "U+C9F8" is the Hangul syllable that the regular expressions   *)
(* of server.js (lines 56 and 76) contain.                                 *)
(* A JavaScript number is an exact fraction [n, d] with d > 0, kept in     *)
(* lowest terms; NaN is the one value with d = 0.                          *)
(***************************************************************************)
EXTENDS Integers, Sequences, FiniteSets, TLC

VARIABLES
  file,      \* the backing file: [mtimeMs, rows]
  cache,     \* server.js line 43: [rows, mtimeMs]
  pc,        \* per caller: where its loadCsvCached() call stands
  stat,      \* per caller: the local `stat.mtimeMs`
  text,      \* per caller: the local `text` (the content readFile gave)
  ret,       \* per caller: how the call ended and what it returned
  obs,       \* per caller: what its call did: the file's mtimeMs when it
             \* started, its reads and parses, whether it failed
  seen,      \* per caller: lastOk, lastFail and the cache when it started
  had,       \* the contents the file has had so far
  stamped,   \* the content the file had when the stat was taken whose
             \* mtimeMs the cache holds
  lastOk,    \* the last call that returned normally: its start and result
  lastFail,  \* the cache as the last failed call left it, until a call ends
  coordIn,   \* parseCoord: the argument
  coordOut,  \* parseCoord: the result
  normIn,    \* normalizeRows: the argument
  normOut    \* normalizeRows: the result and the dropped count

vars == <<file, cache, pc, stat, text, ret, obs, seen, had, stamped, lastOk,
          lastFail,
          coordIn, coordOut, normIn, normOut>>

Null == [t |-> "null"]
Str(s) == [t |-> "str", s |-> s]
Num(v) == [t |-> "num", v |-> v]

\* ---------------------------------------------------------------- numbers

Abs(i) == IF i < 0 THEN -i ELSE i

RECURSIVE Gcd(_, _)
Gcd(a, b) == IF b = 0 THEN a ELSE Gcd(b, a % b)

NaN == [n |-> 0, d |-> 0]

\* The fraction n/d (d > 0) in lowest terms.
Rat(n, d) == LET g == Gcd(Abs(n), d) IN [n |-> n \div g, d |-> d \div g]

IsNaN(x) == x.d = 0
RatAdd(x, y) == Rat(x.n * y.d + y.n * x.d, x.d * y.d)
RatDiv(x, k) == Rat(x.n, x.d * k)
RatAbs(x) == [n |-> Abs(x.n), d |-> x.d]
RatNeg(x) == [n |-> -(x.n), d |-> x.d]
RatLtZero(x) == x.n < 0

\* ---------------------------------------------------------------- strings

Digits == {"0", "1", "2", "3", "4", "5", "6", "7", "8", "9"}

DigitVal(c) ==
  CASE c = "0" -> 0 [] c = "1" -> 1 [] c = "2" -> 2 [] c = "3" -> 3
    [] c = "4" -> 4 [] c = "5" -> 5 [] c = "6" -> 6 [] c = "7" -> 7
    [] c = "8" -> 8 [] c = "9" -> 9

RECURSIVE Pow10(_)
Pow10(k) == IF k = 0 THEN 1 ELSE 10 * Pow10(k - 1)

\* The value of a run of digits.
RECURSIVE DigitsVal(_)
DigitsVal(s) ==
  IF s = <<>> THEN 0
  ELSE 10 * DigitsVal(SubSeq(s, 1, Len(s) - 1)) + DigitVal(s[Len(s)])

\* The length of the longest run of digits that s starts with from index i.
RECURSIVE DigitRun(_, _)
DigitRun(s, i) ==
  IF i <= Len(s) /\ s[i] \in Digits THEN 1 + DigitRun(s, i + 1) ELSE 0

\* String.prototype.trim, for the one white-space character of the model.
RECURSIVE TrimLeft(_)
TrimLeft(s) == IF s # <<>> /\ Head(s) = " " THEN TrimLeft(Tail(s)) ELSE s

RECURSIVE TrimRight(_)
TrimRight(s) ==
  IF s # <<>> /\ s[Len(s)] = " " THEN TrimRight(SubSeq(s, 1, Len(s) - 1)) ELSE s

Trim(s) == TrimRight(TrimLeft(s))

\* s.replace(',', '.'): a string pattern replaces the first occurrence only.
RECURSIVE ReplaceFirstComma(_)
ReplaceFirstComma(s) ==
  IF s = <<>> THEN <<>>
  ELSE IF Head(s) = "," THEN <<".">> \o Tail(s)
  ELSE <<Head(s)>> \o ReplaceFirstComma(Tail(s))

\* The character class of the regular expression of line 56, and of the
\* three replacements of lines 76-78.
DmsSymbols == {"U+C9F8", "'", "\""}

\* The character class [NSEW] under the i flag (lines 57, 68, 71).
HemiLetters == {"N", "S", "E", "W", "n", "s", "e", "w"}

ToUpper(c) ==
  CASE c = "n" -> "N" [] c = "s" -> "S" [] c = "e" -> "E" [] c = "w" -> "W"
    [] OTHER -> c

HasAny(s, set) == \E i \in 1..Len(s) : s[i] \in set

\* s.match(/([NSEW])/i)[1]: the first hemisphere letter of s.
RECURSIVE FirstIn(_, _)
FirstIn(s, set) == IF Head(s) \in set THEN Head(s) ELSE FirstIn(Tail(s), set)

\* A global replacement of every character of `set` by a space.
ReplaceAll(s, set) == [i \in 1..Len(s) |-> IF s[i] \in set THEN " " ELSE s[i]]

\* s.split(' ').filter(Boolean): the maximal runs of non-space characters.
RECURSIVE Split(_, _)
Split(s, cur) ==
  IF s = <<>> THEN (IF cur = <<>> THEN <<>> ELSE <<cur>>)
  ELSE IF Head(s) = " "
       THEN (IF cur = <<>> THEN <<>> ELSE <<cur>>) \o Split(Tail(s), <<>>)
       ELSE Split(Tail(s), cur \o <<Head(s)>>)

\* The longest prefix of s that is a decimal literal (StrDecimalLiteral of
\* ECMA-262 without exponent and without Infinity): an optional sign, then
\* digits with an optional fraction, or a fraction alone.
ScanNumber(s) ==
  LET signed == s # <<>> /\ s[1] \in {"+", "-"}
      i0     == IF signed THEN 2 ELSE 1
      ilen   == DigitRun(s, i0)
      dotAt  == i0 + ilen
      dot    == dotAt <= Len(s) /\ s[dotAt] = "."
      flen   == IF dot THEN DigitRun(s, dotAt + 1) ELSE 0
      ok     == ilen > 0 \/ flen > 0
      ipart  == DigitsVal(SubSeq(s, i0, i0 + ilen - 1))
      fpart  == DigitsVal(SubSeq(s, dotAt + 1, dotAt + flen))
      mag    == ipart * Pow10(flen) + fpart
      used   == (i0 - 1) + ilen + (IF dot THEN 1 + flen ELSE 0)
  IN [ok  |-> ok,
      val |-> IF ~ok THEN NaN
              ELSE Rat(IF signed /\ s[1] = "-" THEN -mag ELSE mag, Pow10(flen)),
      len |-> used]

\* parseFloat(s): the number the longest numeric prefix denotes.
ParseFloat(s) == ScanNumber(s).val

\* Number(s) of a non-empty trimmed string: the whole string must be the literal.
ToNumber(s) ==
  LET r == ScanNumber(s) IN IF r.ok /\ r.len = Len(s) THEN r.val ELSE NaN

\* ------------------------------------------------------------- parseCoord

\* DmsValue without line 94: the sign of the degrees is lost.
DmsValueUnsigned(parts, hemi) ==
  LET deg == ParseFloat(parts[1])
      min == ParseFloat(IF Len(parts) >= 2 THEN parts[2] ELSE <<"0">>)
      sec == ParseFloat(IF Len(parts) >= 3 THEN parts[3] ELSE <<"0">>)
      dec == RatAdd(RatAdd(RatAbs(deg), RatDiv(min, 60)), RatDiv(sec, 3600))
  IN IF IsNaN(deg) \/ IsNaN(min) \/ IsNaN(sec) THEN NaN
     ELSE IF hemi \in {"S", "W"} THEN RatNeg(RatAbs(dec))
     ELSE IF hemi \in {"N", "E"} THEN RatAbs(dec)
     ELSE dec

\* Lines 85-100: the tokens to a signed decimal.
DmsValue(parts, hemi) ==
  LET deg == ParseFloat(parts[1])
      min == ParseFloat(IF Len(parts) >= 2 THEN parts[2] ELSE <<"0">>)
      sec == ParseFloat(IF Len(parts) >= 3 THEN parts[3] ELSE <<"0">>)
      dec == RatAdd(RatAdd(RatAbs(deg), RatDiv(min, 60)), RatDiv(sec, 3600))
      sgn == IF RatLtZero(deg) THEN RatNeg(dec) ELSE dec
  IN IF IsNaN(deg) \/ IsNaN(min) \/ IsNaN(sec) THEN NaN
     ELSE IF hemi \in {"S", "W"} THEN RatNeg(RatAbs(sgn))
     ELSE IF hemi \in {"N", "E"} THEN RatAbs(sgn)
     ELSE sgn

\* Lines 50-100, for a string value.
ParseCoordStr(raw) ==
  LET s0 == Trim(raw)
      s1 == ReplaceFirstComma(s0)
      hasDmsSymbols == HasAny(s1, DmsSymbols)
      hasHemisphere == HasAny(s1, HemiLetters)
      hemi == IF hasHemisphere THEN ToUpper(FirstIn(s1, HemiLetters)) ELSE "none"
      s2 == ReplaceAll(s1, HemiLetters)
      s3 == ReplaceAll(s2, DmsSymbols)
      parts == Split(s3, <<>>)
  IN IF s0 = <<>> THEN NaN
     ELSE IF ~hasDmsSymbols /\ ~hasHemisphere THEN ToNumber(s1)
     ELSE IF Len(parts) = 0 THEN NaN
     ELSE DmsValue(parts, hemi)

parseCoord(value) ==
  IF value.t = "null" THEN NaN
  ELSE IF value.t = "num" THEN value.v
  ELSE ParseCoordStr(value.s)

\* ---------------------------------------------------------------- findKey

UpperCase == <<"A", "B", "C", "D", "E", "F", "G", "H", "I", "J", "K", "L", "M",
               "N", "O", "P", "Q", "R", "S", "T", "U", "V", "W", "X", "Y", "Z">>
LowerCase == <<"a", "b", "c", "d", "e", "f", "g", "h", "i", "j", "k", "l", "m",
               "n", "o", "p", "q", "r", "s", "t", "u", "v", "w", "x", "y", "z">>

\* String.prototype.toLowerCase, character by character.
ToLowerChar(c) ==
  IF \E i \in 1..Len(UpperCase) : UpperCase[i] = c
  THEN LowerCase[CHOOSE i \in 1..Len(UpperCase) : UpperCase[i] = c]
  ELSE c

ToLower(s) == [i \in 1..Len(s) |-> ToLowerChar(s[i])]

\* A raw row is the sequence of its <<column name, cell>> pairs, in the
\* order of Object.keys; the names of one row are distinct.
KeysOf(row) == [i \in 1..Len(row) |-> row[i][1]]

\* row[key]
Cell(row, key) == row[CHOOSE i \in 1..Len(row) : row[i][1] = key][2]

NoKey == [found |-> FALSE, key |-> <<>>]

\* Line 105: Object.fromEntries keeps, for each lower-cased name, the LAST
\* column with that name.  lower[c] is that column.
LowerLookup(row, c) ==
  LET hits == {i \in 1..Len(row) : ToLower(row[i][1]) = c}
  IN IF hits = {} THEN NoKey
     ELSE [found |-> TRUE,
           key   |-> row[CHOOSE i \in hits : \A j \in hits : j <= i][1]]

\* Lines 104-111: the first candidate, in order, that some column matches.
RECURSIVE findKey(_, _)
findKey(obj, candidates) ==
  IF candidates = <<>> THEN NoKey
  ELSE LET hit == LowerLookup(obj, ToLower(Head(candidates)))
       IN IF hit.found THEN hit ELSE findKey(obj, Tail(candidates))

LatAliases  == << <<"l","a","t">>, <<"L","a","t","i","t","u","d","e">>, <<"y">> >>
LonAliases  == << <<"l","o","n">>, <<"l","n","g">>,
                  <<"L","o","n","g","i","t","u","d","e">>, <<"x">> >>
NameAliases == << <<"u","s","e","r">>, <<"u","s","e","r","n","a","m","e">>,
                  <<"n","a","m","e">>, <<"l","a","b","e","l">>,
                  <<"A","n","a","l","y","s","t">> >>

\* String(v) of a CSV cell (a string), and of null.
ToStr(v) == IF v.t = "null" THEN <<"n", "u", "l", "l">> ELSE v.s

\* ---------------------------------------------------------- normalizeRows

\* Lines 125-131: the point the three cells give, or a drop.
CellsPoint(lat, lon, label) ==
  IF IsNaN(lat) \/ IsNaN(lon) \/ label = <<>>
  THEN [keep |-> FALSE]
  ELSE [keep |-> TRUE, point |-> [lat |-> lat, lon |-> lon, label |-> label]]

\* Lines 123-127: the row is dropped unless the three columns are found.
KeysPoint(row, latKey, lonKey, nameKey) ==
  IF ~latKey.found \/ ~lonKey.found \/ ~nameKey.found
  THEN [keep |-> FALSE]
  ELSE CellsPoint(parseCoord(Cell(row, latKey.key)),
                  parseCoord(Cell(row, lonKey.key)),
                  Trim(ToStr(Cell(row, nameKey.key))))

\* Lines 119-131: one iteration of the loop: the point the row gives, or a drop.
RowPoint(row) ==
  KeysPoint(row, findKey(row, LatAliases), findKey(row, LonAliases),
            findKey(row, NameAliases))

\* Push that does not count the row it drops.
PushUncounted(acc, r) ==
  IF r.keep
  THEN [out |-> Append(acc.out, r.point), dropped |-> acc.dropped]
  ELSE [out |-> acc.out, dropped |-> acc.dropped]

\* Lines 123, 129, 131: the row is pushed to `out`, or `dropped` is incremented.
Push(acc, r) ==
  IF r.keep
  THEN [out |-> Append(acc.out, r.point), dropped |-> acc.dropped]
  ELSE [out |-> acc.out, dropped |-> acc.dropped + 1]

\* Lines 114-136: `out` as returned and `dropped` as logged.
RECURSIVE normalizeRows(_)
normalizeRows(rows) ==
  IF rows = <<>> THEN [out |-> <<>>, dropped |-> 0]
  ELSE Push(normalizeRows(SubSeq(rows, 1, Len(rows) - 1)), RowPoint(rows[Len(rows)]))

\* ------------------------------------------------------------ the contents

KLat  == <<"l", "a", "t">>
KLAT  == <<"L", "A", "T">>
KY    == <<"y">>
KLon  == <<"L", "o", "n", "g", "i", "t", "u", "d", "e">>
KX    == <<"x">>
KName == <<"n", "a", "m", "e">>
KUser == <<"U", "S", "E", "R">>
KId   == <<"i", "d">>

\* A row with the three columns, under the given names.
Row3(klat, lat, klon, lon, kname, name) ==
  << <<klat, Str(lat)>>, <<klon, Str(lon)>>, <<kname, Str(name)>> >>

RowA == Row3(KY, <<"1", ".", "5">>, KX, <<"2">>, KName, <<"a">>)
RowB == Row3(KLAT, <<"3", " ", "3", "0", "'", "S">>, KLon, <<"4", ",", "5">>,
             KUser, <<" ", "b", " ">>)
RowC == Row3(KLat, <<"-", "7">>, KX, <<"8", " ", "E">>, KName, <<"c">>)
\* No latitude column at all.
RowNoLat == << <<KId, Str(<<"9">>)>>, <<KX, Str(<<"2">>)>>, <<KName, Str(<<"d">>)>> >>
\* A coordinate that is no number.
RowBadLon == Row3(KLat, <<"1">>, KLon, <<"2", " ", "3">>, KName, <<"e">>)
\* A label of spaces only.
RowNoLabel == Row3(KLat, <<"1">>, KLon, <<"2">>, KName, <<" ", " ">>)
\* Two columns whose names differ by case only: the later one is taken.
RowTwoLat == << <<KLat, Str(<<"x">>)>>, <<KLAT, Str(<<"6">>)>>,
                <<KX, Str(<<"2">>)>>, <<KName, Str(<<"f">>)>> >>

\* The contents the file takes: what the CSV reader gives for them.
Contents == { <<RowA>>, <<RowNoLat, RowC>> }

\* ----------------------------------------------------------- loadCsvCached

Callers == {"a", "b"}

MaxMtime == 3

Rows(v) == [t |-> "rows", v |-> v]

\* Line 43.
InitCache == [rows |-> Null, mtimeMs |-> 0]

NoRet == [kind |-> "none", value |-> <<>>]
Returned(v) == [kind |-> "returned", value |-> v]
Raised == [kind |-> "raised", value |-> <<>>]

\* NeedsReload that never looks at the modification time.
NeedsReloadOnce(c, mtimeMs) == c.rows = Null

\* NeedsReload with >= for >.
NeedsReloadAlways(c, mtimeMs) == c.rows = Null \/ mtimeMs >= c.mtimeMs

\* Line 142: `!cache.rows || stat.mtimeMs > cache.mtimeMs`.
NeedsReload(c, mtimeMs) == c.rows = Null \/ mtimeMs > c.mtimeMs

\* Lines 144-146: the cache entry a load makes of the text and the stat result.
NewCache(txt, mtimeMs) == [rows |-> Rows(normalizeRows(txt).out), mtimeMs |-> mtimeMs]

\* A catch block that throws again.
OnErrorRethrow == Raised

\* A catch block that resets the cache.
CacheOnErrorReset(c) == InitCache

\* Lines 149-152: the catch block returns [] to the caller ...
OnError == Returned(<<>>)

\* ... and assigns nothing: the cache after it is the cache before it.
CacheOnError(c) == c

\* Line 148: `return cache.rows`.
ReturnValue(c) == c.rows.v

NoObs == [startVer |-> 0, statRows |-> <<>>, reads |-> 0, parses |-> 0,
          failed |-> FALSE]

NoLastOk == [ver |-> 0, value |-> <<>>, reads |-> 0]

NoSeen == [prior |-> NoLastOk, afterFail |-> FALSE, cache |-> InitCache]

InitLoader ==
  /\ \E c \in Contents : file = [mtimeMs |-> 1, rows |-> c] /\ had = {c}
  /\ stamped = <<>>
  /\ cache = InitCache
  /\ pc = [p \in Callers |-> "idle"]
  /\ stat = [p \in Callers |-> 0]
  /\ text = [p \in Callers |-> <<>>]
  /\ ret = [p \in Callers |-> NoRet]
  /\ obs = [p \in Callers |-> NoObs]
  /\ seen = [p \in Callers |-> NoSeen]
  /\ lastOk = NoLastOk
  /\ lastFail = FALSE

PureIdle ==
  /\ coordIn = [value |-> Null, form |-> "none"]
  /\ coordOut = [done |-> FALSE, v |-> NaN]
  /\ normIn = <<>>
  /\ normOut = [done |-> FALSE, res |-> [out |-> <<>>, dropped |-> 0]]

PureUnchanged == UNCHANGED <<coordIn, coordOut, normIn, normOut>>

\* A write to the file: the file system stamps it with a later time.
Modify ==
  /\ file.mtimeMs < MaxMtime
  /\ \E c \in Contents :
       /\ file' = [mtimeMs |-> file.mtimeMs + 1, rows |-> c]
       /\ had' = had \cup {c}
  /\ UNCHANGED <<cache, pc, stat, text, ret, obs, stamped>>
  /\ PureUnchanged

\* GET /api/points (line 157): a caller enters loadCsvCached; line 141 asks for
\* the stat.
Call(p) ==
  /\ pc[p] = "idle"
  /\ pc' = [pc EXCEPT ![p] = "stat"]
  /\ obs' = [obs EXCEPT ![p] = [NoObs EXCEPT !.startVer = file.mtimeMs]]
  /\ UNCHANGED <<file, cache, stat, text, ret, had, stamped>>
  /\ PureUnchanged

\* Line 141: the stat is taken.
StatOk(p) ==
  /\ pc[p] = "stat"
  /\ stat' = [stat EXCEPT ![p] = file.mtimeMs]
  /\ pc' = [pc EXCEPT ![p] = "statted"]
  /\ obs' = [obs EXCEPT ![p].statRows = file.rows]
  /\ UNCHANGED <<file, cache, text, ret, had, stamped>>
  /\ PureUnchanged

\* Line 141: the stat fails (the file is missing or cannot be reached).
StatFail(p) ==
  /\ pc[p] = "stat"
  /\ pc' = [pc EXCEPT ![p] = "rejected"]
  /\ UNCHANGED <<file, cache, stat, text, ret, obs, had, stamped>>
  /\ PureUnchanged

\* Lines 142-148 after the stat: either the read is asked for (line 143), or
\* the call returns the cached rows (line 148).
AfterStat(p) ==
  /\ pc[p] = "statted"
  /\ IF NeedsReload(cache, stat[p])
     THEN /\ pc' = [pc EXCEPT ![p] = "read"]
          /\ UNCHANGED <<ret, obs>>
     ELSE /\ pc' = [pc EXCEPT ![p] = "done"]
          /\ ret' = [ret EXCEPT ![p] = Returned(ReturnValue(cache))]
          /\ obs' = [obs EXCEPT ![p].statRows = <<>>]
  /\ UNCHANGED <<file, cache, stat, text, had, stamped>>
  /\ PureUnchanged

\* Line 143: the file is read.
ReadOk(p) ==
  /\ pc[p] = "read"
  /\ text' = [text EXCEPT ![p] = file.rows]
  /\ pc' = [pc EXCEPT ![p] = "readDone"]
  /\ obs' = [obs EXCEPT ![p].reads = @ + 1]
  /\ UNCHANGED <<file, cache, stat, ret, had, stamped>>
  /\ PureUnchanged

\* Line 143: the read fails.
ReadFail(p) ==
  /\ pc[p] = "read"
  /\ pc' = [pc EXCEPT ![p] = "rejected"]
  /\ UNCHANGED <<file, cache, stat, text, ret, obs, had, stamped>>
  /\ PureUnchanged

\* Lines 144-148 after the read: parse, normalize, replace the cache, return.
AfterRead(p) ==
  /\ pc[p] = "readDone"
  /\ cache' = NewCache(text[p], stat[p])
  /\ ret' = [ret EXCEPT ![p] = Returned(ReturnValue(cache'))]
  /\ pc' = [pc EXCEPT ![p] = "done"]
  /\ obs' = [obs EXCEPT ![p].parses = @ + 1, ![p].statRows = <<>>]
  /\ stamped' = obs[p].statRows
  /\ text' = [text EXCEPT ![p] = <<>>]
  /\ UNCHANGED <<file, stat, had>>
  /\ PureUnchanged

\* Lines 149-152: the catch block.
Catch(p) ==
  /\ pc[p] = "rejected"
  /\ ret' = [ret EXCEPT ![p] = OnError]
  /\ cache' = CacheOnError(cache)
  /\ pc' = [pc EXCEPT ![p] = "done"]
  /\ obs' = [obs EXCEPT ![p].failed = TRUE, ![p].statRows = <<>>]
  /\ text' = [text EXCEPT ![p] = <<>>]
  /\ UNCHANGED <<file, stat, had, stamped>>
  /\ PureUnchanged

\* Lines 157-159: the handler takes the result; the caller may call again.
Finish(p) ==
  /\ pc[p] = "done"
  /\ ret[p].kind = "returned"
  /\ pc' = [pc EXCEPT ![p] = "idle"]
  /\ stat' = [stat EXCEPT ![p] = 0]
  /\ text' = [text EXCEPT ![p] = <<>>]
  /\ ret' = [ret EXCEPT ![p] = NoRet]
  /\ obs' = [obs EXCEPT ![p] = NoObs]
  /\ UNCHANGED <<file, cache, had, stamped>>
  /\ PureUnchanged

\* The history of calls is not recorded when calls overlap.
NoHistory == UNCHANGED <<seen, lastOk, lastFail>>

Init == InitLoader /\ PureIdle

Next ==
  \/ Modify /\ NoHistory
  \/ \E p \in Callers :
       \/ Call(p) /\ NoHistory
       \/ StatOk(p) /\ NoHistory
       \/ StatFail(p) /\ NoHistory
       \/ AfterStat(p) /\ NoHistory
       \/ ReadOk(p) /\ NoHistory
       \/ ReadFail(p) /\ NoHistory
       \/ AfterRead(p) /\ NoHistory
       \/ Catch(p) /\ NoHistory
       \/ Finish(p) /\ NoHistory

\* Any number of calls may overlap.
Spec == Init /\ [][Next]_vars

\* Calls that do not overlap: a call starts when no other call is under way.
NoneUnderWay == \A q \in Callers : pc[q] = "idle"

\* The history of the calls of a step: which call returned normally last
\* (the file's mtimeMs when it started, its result, its reads), whether the
\* last call to end failed with the cache populated, and what a starting
\* call finds.
History ==
  LET ended   == {p \in Callers : pc[p] # "done" /\ pc'[p] = "done"}
      started == {p \in Callers : pc[p] = "idle" /\ pc'[p] = "stat"}
      good    == {p \in ended : ~obs'[p].failed}
  IN /\ lastOk' = IF good = {} THEN lastOk
                  ELSE LET p == CHOOSE q \in good : TRUE
                       IN [ver |-> obs'[p].startVer, value |-> ret'[p].value,
                           reads |-> obs'[p].reads]
     /\ lastFail' = IF ended = {} THEN lastFail
                    ELSE \E p \in ended : obs'[p].failed /\ cache'.rows # Null
     /\ seen' = [p \in Callers |->
                   IF p \in started
                   THEN [prior |-> lastOk, afterFail |-> lastFail, cache |-> cache]
                   ELSE IF pc'[p] = "idle" THEN NoSeen ELSE seen[p]]

NextSeq ==
  \/ Modify /\ History
  \/ \E p \in Callers :
       \/ NoneUnderWay /\ Call(p) /\ History
       \/ StatOk(p) /\ History
       \/ StatFail(p) /\ History
       \/ AfterStat(p) /\ History
       \/ ReadOk(p) /\ History
       \/ ReadFail(p) /\ History
       \/ AfterRead(p) /\ History
       \/ Catch(p) /\ History
       \/ Finish(p) /\ History

SpecSeq == Init /\ [][NextSeq]_vars

\* ------------------------------------------------- parseCoord on its own

\* The decimal digits of a natural number.
RECURSIVE DigitsOf(_)
DigitsOf(n) ==
  LET last == <<CHOOSE c \in Digits : DigitVal(c) = n % 10>>
  IN IF n < 10 THEN last ELSE DigitsOf(n \div 10) \o last

DegVals == {0, 5, 28}
MinVals == {30, 36}
SecVals == {0, 50}

\* The written forms of a degrees-minutes-seconds coordinate: a sign, the
\* three numbers, what follows each of them, and a hemisphere letter with or
\* without a space before it.
Forms ==
  { f \in [neg : BOOLEAN, d : DegVals, m : MinVals, s : SecVals,
           sep1 : {" ", "U+00B0", "U+C9F8"}, sep2 : {" ", "'"},
           sep3 : {"", "\""}, hemi : {"none", "N", "S", "E", "W", "s"},
           gap : BOOLEAN] :
      /\ (f.hemi = "none" => ~f.gap)
      /\ (f.sep3 = "" /\ f.hemi # "none" => f.gap) }

Render(f) ==
  (IF f.neg THEN <<"-">> ELSE <<>>) \o DigitsOf(f.d) \o <<f.sep1>>
    \o DigitsOf(f.m) \o <<f.sep2>> \o DigitsOf(f.s)
    \o (IF f.sep3 = "" THEN <<>> ELSE <<f.sep3>>)
    \o (IF f.gap THEN <<" ">> ELSE <<>>)
    \o (IF f.hemi = "none" THEN <<>> ELSE <<f.hemi>>)

LoaderIdle ==
  /\ file = [mtimeMs |-> 1, rows |-> <<>>] /\ had = {<<>>}
  /\ stamped = <<>>
  /\ cache = InitCache
  /\ pc = [p \in Callers |-> "idle"]
  /\ stat = [p \in Callers |-> 0]
  /\ text = [p \in Callers |-> <<>>]
  /\ ret = [p \in Callers |-> NoRet]
  /\ obs = [p \in Callers |-> NoObs]
  /\ seen = [p \in Callers |-> NoSeen]
  /\ lastOk = NoLastOk
  /\ lastFail = FALSE

LoaderUnchanged ==
  UNCHANGED <<file, cache, pc, stat, text, ret, obs, seen, had, stamped, lastOk,
              lastFail>>

InitCoord ==
  /\ LoaderIdle
  /\ \E f \in Forms : coordIn = [value |-> Str(Render(f)), form |-> f]
  /\ coordOut = [done |-> FALSE, v |-> NaN]
  /\ normIn = <<>>
  /\ normOut = [done |-> FALSE, res |-> [out |-> <<>>, dropped |-> 0]]

\* parseCoord(value) is called.
ParseStep ==
  /\ ~coordOut.done
  /\ coordOut' = [done |-> TRUE, v |-> parseCoord(coordIn.value)]
  /\ UNCHANGED <<coordIn, normIn, normOut>>
  /\ LoaderUnchanged

NextCoord == ParseStep

SpecCoord == InitCoord /\ [][NextCoord]_vars

\* ---------------------------------------------- normalizeRows on its own

MaxRows == 3

RowKinds == {RowA, RowB, RowC, RowNoLat, RowBadLon, RowNoLabel, RowTwoLat}

\* The lists of n rows.
RECURSIVE ListsOf(_)
ListsOf(n) ==
  IF n = 0 THEN {<<>>}
  ELSE {Append(l, r) : l \in ListsOf(n - 1), r \in RowKinds}

RowLists == UNION {ListsOf(n) : n \in 0..MaxRows}

InitNorm ==
  /\ LoaderIdle
  /\ coordIn = [value |-> Null, form |-> "none"]
  /\ coordOut = [done |-> FALSE, v |-> NaN]
  /\ normIn \in RowLists
  /\ normOut = [done |-> FALSE, res |-> [out |-> <<>>, dropped |-> 0]]

\* normalizeRows(rows) is called.
NormStep ==
  /\ ~normOut.done
  /\ normOut' = [done |-> TRUE, res |-> normalizeRows(normIn)]
  /\ UNCHANGED <<coordIn, coordOut, normIn>>
  /\ LoaderUnchanged

NextNorm == NormStep

SpecNorm == InitNorm /\ [][NextNorm]_vars

\* ------------------------------------------------------------------ claims

Normal(p) == pc[p] = "done" /\ ~obs[p].failed

\* The normalization of each content.
PointsOf == [c \in Contents |-> normalizeRows(c).out]

Points(rows) == PointsOf[rows]

\* C1. Calls that do not overlap: a call that returned normally and started
\* when the file already had its present modification time returns the
\* normalization of the present content; and when the file has not been
\* written since the previous normally returning call started, the call
\* returns what that call returned.
C1_CacheCorrect ==
  \A p \in Callers :
    Normal(p) =>
      /\ (obs[p].startVer = file.mtimeMs => ret[p].value = Points(file.rows))
      /\ (seen[p].prior.ver = file.mtimeMs => ret[p].value = seen[p].prior.value)

\* A call after a write returned something else than the call before the write.
C1_Witness ==
  \E p \in Callers :
    /\ Normal(p)
    /\ seen[p].prior.ver # 0
    /\ seen[p].prior.ver < obs[p].startVer
    /\ obs[p].startVer = file.mtimeMs
    /\ ret[p].value # seen[p].prior.value
    /\ ret[p].value = Points(file.rows)

\* C2. Calls that do not overlap: a call that finds the cache populated and a
\* modification time not newer than the cached one reads nothing and parses
\* nothing; and of two calls with no write to the file since the first one
\* started, the second reads nothing, so that both read at most once.
C2_Idempotent ==
  \A p \in Callers :
    Normal(p) =>
      /\ (seen[p].cache.rows # Null /\ stat[p] <= seen[p].cache.mtimeMs
            => obs[p].reads = 0 /\ obs[p].parses = 0)
      /\ (seen[p].prior.ver = file.mtimeMs
            => /\ obs[p].reads = 0 /\ obs[p].parses = 0
               /\ obs[p].reads + seen[p].prior.reads <= 1)

\* The first call read the file, the second, with no write between, did not.
C2_Witness ==
  \E p \in Callers :
    /\ Normal(p)
    /\ seen[p].prior.ver = file.mtimeMs
    /\ seen[p].prior.reads = 1
    /\ obs[p].reads = 0
    /\ ret[p].value = seen[p].prior.value

\* C3. Whenever the cache is populated, its rows are the normalization of the
\* content the file had while its modification time was the cached one.
C3_RowsMatchMtime ==
  cache.rows # Null => cache.rows.v = Points(stamped)

\* C4. Overlapping calls: every call that returns normally returns the
\* normalization of a content the file had, and a call that started after the
\* last write returns the normalization of the present content.
C4_NotCorrupted ==
  \A p \in Callers :
    Normal(p) =>
      /\ \E c \in had : ret[p].value = Points(c)
      /\ (obs[p].startVer = file.mtimeMs => ret[p].value = Points(file.rows))

\* After a write, two overlapping calls saw the same new modification time
\* and both read and parsed the file.
C4_Witness ==
  \E p, q \in Callers :
    /\ p # q /\ Normal(p) /\ Normal(q)
    /\ obs[p].parses = 1 /\ obs[q].parses = 1
    /\ stat[p] = stat[q] /\ stat[p] > 1
    /\ obs[p].startVer = file.mtimeMs /\ obs[q].startVer = file.mtimeMs

\* C5. Calls that do not overlap: a failed call returns the empty list and
\* leaves the cache as it found it; and the call after a failure that left a
\* populated cache, when the modification time is not newer than the cached
\* one, returns the cached rows and reads nothing.
C5_FailureKeepsCache ==
  \A p \in Callers :
    /\ (pc[p] = "done" /\ obs[p].failed
          => ret[p] = Returned(<<>>) /\ cache = seen[p].cache)
    /\ (Normal(p) /\ seen[p].afterFail /\ stat[p] <= seen[p].cache.mtimeMs
          => ret[p].value = seen[p].cache.rows.v /\ obs[p].reads = 0)

\* A call after a failed one returned the rows cached before the failure.
C5_Witness ==
  \E p \in Callers :
    /\ Normal(p) /\ seen[p].afterFail
    /\ obs[p].reads = 0
    /\ ret[p].value = seen[p].cache.rows.v
    /\ ret[p].value # <<>>

IsPointList(v) ==
  \A i \in DOMAIN v : ~IsNaN(v[i].lat) /\ ~IsNaN(v[i].lon) /\ v[i].label # <<>>

\* C6. A call never raises: whatever the stat and the read did, a call that
\* ended returned a list to its caller.
C6_NeverRaises ==
  \A p \in Callers :
    pc[p] = "done" => ret[p].kind = "returned" /\ IsPointList(ret[p].value)

\* Both the stat and the read have failed, and both calls returned [].
C6_Witness ==
  \E p, q \in Callers :
    /\ pc[p] = "done" /\ obs[p].failed /\ stat[p] = 0
    /\ pc[q] = "done" /\ obs[q].failed /\ stat[q] > 0
    /\ ret[p] = Returned(<<>>) /\ ret[q] = Returned(<<>>)

\* C10. The cached modification time never decreases.
C10_MtimeNeverDecreases == [][cache'.mtimeMs >= cache.mtimeMs]_vars

\* The value the three numbers of a form stand for, unsigned.
Magnitude(f) == Rat(f.d * 3600 + f.m * 60 + f.s, 3600)

Unmarked(f) == f.sep1 = " " /\ f.sep2 = " " /\ f.sep3 = ""

C8_MarkedDms ==
  LET f == coordIn.form
  IN coordOut.done /\ f.sep1 = "U+00B0" /\ f.sep2 = "'" /\ f.sep3 = "\""
       /\ f.hemi # "none"
       => coordOut.v = IF f.hemi \in {"S", "W", "s"} THEN RatNeg(Magnitude(f))
                       ELSE Magnitude(f)

\* No column of the row has one of the names, whatever the case.
MissingAlias(row, aliases) ==
  \A i \in 1..Len(row), j \in 1..Len(aliases) :
    ToLower(row[i][1]) # ToLower(aliases[j])

LatOf(row) == parseCoord(Cell(row, findKey(row, LatAliases).key))
LonOf(row) == parseCoord(Cell(row, findKey(row, LonAliases).key))
LabelOf(row) == Trim(ToStr(Cell(row, findKey(row, NameAliases).key)))

Invalid(row) ==
  \/ MissingAlias(row, LatAliases)
  \/ MissingAlias(row, LonAliases)
  \/ MissingAlias(row, NameAliases)
  \/ IsNaN(LatOf(row)) \/ IsNaN(LonOf(row)) \/ LabelOf(row) = <<>>

IsValid(row) == ~Invalid(row)

\* C9. normalizeRows drops exactly the invalid rows and counts each once; the
\* rows kept are the valid rows in their order, so kept + dropped = rows.
C9_DropsAndCounts ==
  LET kept == SelectSeq(normIn, IsValid)
      out  == normOut.res.out
  IN normOut.done =>
       /\ normOut.res.dropped = Cardinality({i \in 1..Len(normIn) : Invalid(normIn[i])})
       /\ Len(out) + normOut.res.dropped = Len(normIn)
       /\ Len(out) = Len(kept)
       /\ \A k \in 1..Len(kept) :
            out[k] = [lat |-> LatOf(kept[k]), lon |-> LonOf(kept[k]),
                      label |-> LabelOf(kept[k])]

\* Of three rows the middle one, without a latitude column, was dropped.
C9_Witness ==
  /\ normOut.done
  /\ normIn = <<RowC, RowNoLat, RowA>>
  /\ normOut.res.dropped = 1
  /\ Len(normOut.res.out) = 2
  /\ normOut.res.out[1].label = <<"c">>
  /\ normOut.res.out[2].label = <<"a">>

====
